---- MODULE Spec2Model ----
(***************************************************************************)
(* pytest-custom-reporter: the report accumulator (CustomReport), the hook *)
(* callbacks of CustomReporterPlugin and the worker-to-coordinator         *)
(* aggregation over xdist's workeroutput channel.                          *)
(*                                                                         *)
(* One plugin instance lives in every process: the coordinator ("master")  *)
(* and the xdist workers.  Each instance owns a CustomReport (tests,       *)
(* summary) and the set _processed_tests.  The host test runner delivers   *)
(* phase reports to pytest_runtest_makereport, ends a worker's session     *)
(* with pytest_sessionfinish, and tells the coordinator about a finished   *)
(* worker with pytest_testnodedown.                                        *)
(*                                                                         *)
(* Spec is the plugin in a session of the host, without a report URL and  *)
(* on a file system that works; SpecSession is such a session with or      *)
(* without a URL, whose directory, file or request may fail; SpecPlain is  *)
(* a plain session over tests with allure labels.  SpecReport is a         *)
(* CustomReport whose methods are called directly, in any order.           *)
(* SpecTruncate is a single _truncate_traceback call, SpecMessage a single *)
(* add_test call for a long text, SpecGenerate the pytest_configure that   *)
(* constructs the plugin and generates its path.  SpecDBHandler is the     *)
(* DBHandler of the single-module reporter (pytest_custom_reporter.py)     *)
(* with its worker thread.                                                 *)
(*                                                                         *)
(* Durations are whole microseconds, clock readings whole milliseconds.    *)
(* A str is a TLA+ string, except the text of a longrepr and what is taken *)
(* from it (message, stack_trace) and the path of the report file: such a  *)
(* text is the sequence of its characters.                                 *)
(***************************************************************************)
EXTENDS Integers, Sequences, FiniteSets, TLC

VARIABLES
    xdist,            \* whether the session is distributed (-n given)
    report,           \* report[p]: the CustomReport of process p: [tests, summary]
    processed_tests,  \* processed_tests[p]: CustomReporterPlugin._processed_tests
    runs,             \* runs[p]: the host's test runs in p, the last one maybe in progress
    hooked,           \* hooked[p]: the records pytest_runtest_makereport added in p, in
                      \* order, each with the phase of the report that added it
    finished,         \* finished[p]: pytest_sessionfinish was called in p
    workeroutput,     \* workeroutput[w]: what worker w published for the coordinator
    down,             \* the nodes pytest_testnodedown was called for
    last_node,        \* the node of the latest pytest_testnodedown call
    final_report,     \* the report finalize returned to the coordinator's sessionfinish
    finalized,        \* finalized[p]: how often pytest_sessionfinish of p called finalize
    raised,           \* a hook let an exception escape to the host
    errlog,           \* the messages logged at warning or error level
    inputs,           \* how many host inputs (test runs, foreign nodes) were taken
    longrepr_str,     \* the text a lone _truncate_traceback or add_test call is given
    truncated,        \* what the _truncate_traceback call returned
    report_format,    \* CustomReporterPlugin.report_format of the coordinator
    user_specified_file,  \* the --custom-report-file option, None when not given
    output_file,      \* CustomReporterPlugin.output_file of the coordinator
    registered,       \* pytest_configure registered the plugin instance
    last_report,      \* the report the hook of a plain session handled last
    remote_url,       \* CustomReporterPlugin.remote_url, None when not configured
    io,               \* what the session did to the file system and the network, in
                      \* order: finalize calls, mkdir, file writes, HTTP POSTs
    queue,            \* DBHandler.queue: the results not yet taken, oldest first
    stop_event,       \* DBHandler.stop_event is set
    worker_thread,    \* where DBHandler._worker stands
    in_hand,          \* the result _worker took from the queue and is saving
    saved,            \* the results _worker committed, in order
    rolled_back,      \* the results whose saving raised: rolled back and logged
    main_thread,      \* where the thread of the hooks stands with the DBHandler
    enqueued          \* the results add_result was called with, in order

\* The attributes of the plugin that select the report file, and whether
\* the plugin was constructed and registered.
path_vars == <<report_format, user_specified_file, output_file, registered>>

\* The CustomReporterPlugin of each process and what it is given.
plugin_vars == <<xdist, report, processed_tests, runs, hooked, finished, workeroutput,
          down, last_node, final_report, finalized, raised, errlog, inputs,
          longrepr_str, truncated, path_vars, last_report, remote_url, io>>

\* The DBHandler of the single-module reporter and its two threads.
db_vars == <<queue, stop_event, worker_thread, in_hand, saved, rolled_back,
             main_thread, enqueued>>

vars == <<plugin_vars, db_vars>>

(***************************************************************************)
(* Bounds of the model.                                                    *)
(***************************************************************************)
MaxInputs == 2
MaxPayload == 2
MaxLines == 25
MaxChars == 502
\* The longest --custom-report-file.
MaxPathLen == 5
\* The most call reports of a session of the single-module reporter.
MaxResults == 3

Master == "master"
Workers == {"gw0", "gw1"}
Procs == {Master} \cup Workers
NodeIds == {"a", "b"}

(***************************************************************************)
(* models.py: TestResult and TestResultModel.                              *)
(***************************************************************************)
TestResult == {"PASSED", "FAILED", "PENDING", "SKIPPED", "ERROR", "OTHER"}

\* TestResult.<member>.value
value(result) ==
    CASE result = "PASSED"  -> "passed"
      [] result = "FAILED"  -> "failed"
      [] result = "PENDING" -> "pending"
      [] result = "SKIPPED" -> "skipped"
      [] result = "ERROR"   -> "error"
      [] result = "OTHER"   -> "other"

\* A value that is not a str (an int, None, an object): pydantic does not
\* coerce it into a str field.
NotAStr == "<not a str>"
IsStr(x) == x # NotAStr

\* The enum member a raw value validates to, for a value the enum accepts:
\* a member itself or the string value of one.
ToTestResult(raw) ==
    IF raw \in TestResult THEN raw
    ELSE CHOOSE r \in TestResult : value(r) = raw

IsTestResult(raw) == raw \in TestResult \/ \E r \in TestResult : value(r) = raw

\* None, for the fields of type str | None.
None == "None"

\* None, for a field whose value is a text: a sequence of chunks, each a
\* newline or a non-empty piece without one, as a rule a single character.
NoText == <<None>>

\* None, for start_time; a datetime is [datetime |-> ms], the ISO 8601 text
\* of one is [isoformat |-> ms].
NoDatetime == [none |-> TRUE]

\* datetime to JSON: datetime.isoformat(); None stays None.
isoformat(dt) ==
    IF "datetime" \in DOMAIN dt THEN [isoformat |-> dt.datetime] ELSE dt

\* pydantic's validation of a datetime | None field: a datetime or None is
\* kept, an ISO 8601 text is parsed.
ToDatetime(raw) ==
    IF "isoformat" \in DOMAIN raw THEN [datetime |-> raw.isoformat] ELSE raw

\* A TestResultModel whose result field has no default.
ValidationOk_result_required(d) ==
    /\ "nodeid" \in DOMAIN d /\ IsStr(d.nodeid)
    /\ "name" \in DOMAIN d /\ IsStr(d.name)
    /\ "result" \in DOMAIN d /\ IsTestResult(d.result)

\* TestResultModel(**d): pydantic validation of the keyword arguments d.
\* nodeid and name are required strings; every other field has a default.
ValidationOk(d) ==
    /\ "nodeid" \in DOMAIN d /\ IsStr(d.nodeid)
    /\ "name" \in DOMAIN d /\ IsStr(d.name)
    /\ "result" \in DOMAIN d => IsTestResult(d.result)

\* The model built from valid keyword arguments d: a field that is not
\* given gets its default.
TestResultModel(d) ==
    [nodeid      |-> d.nodeid,
     name        |-> d.name,
     duration    |-> IF "duration" \in DOMAIN d THEN d.duration ELSE 0,
     start_time  |-> IF "start_time" \in DOMAIN d THEN ToDatetime(d.start_time)
                     ELSE NoDatetime,
     result      |-> IF "result" \in DOMAIN d THEN ToTestResult(d.result) ELSE "OTHER",
     environment |-> IF "environment" \in DOMAIN d THEN d.environment ELSE None,
     marks       |-> IF "marks" \in DOMAIN d THEN d.marks ELSE <<>>,
     params      |-> IF "params" \in DOMAIN d THEN d.params ELSE <<>>,
     stack_trace |-> IF "stack_trace" \in DOMAIN d THEN d.stack_trace ELSE NoText,
     message     |-> IF "message" \in DOMAIN d THEN d.message ELSE NoText,
     allure_id   |-> IF "allure_id" \in DOMAIN d THEN d.allure_id ELSE None]

\* A dump that writes str(test.result), "TestResult.<MEMBER>", which the enum
\* does not accept back.
model_dump_str_enum(test) ==
    [test EXCEPT !.start_time = isoformat(@), !.result = "TestResult.MEMBER"]

\* test.model_dump(mode='json'): every field of the model, the enum as its
\* string value, the datetime as its ISO 8601 text.
model_dump(test) ==
    [test EXCEPT !.start_time = isoformat(@), !.result = value(@)]

(***************************************************************************)
(* plugin.py: CustomReport.                                                *)
(***************************************************************************)
Kinds == {"passed", "failed", "pending", "skipped", "error", "other"}
SummaryKeys == Kinds \cup {"tests"}

\* CustomReport.__init__ at clock reading now.
CustomReport(now) ==
    [tests |-> <<>>, summary |-> [k \in SummaryKeys |-> 0], start_time |-> now]

\* The newline of a text.
NL == "\n"

\* text.split("\n"): the lines of a text, each the chunks between two newlines.
RECURSIVE split(_)
split(text) ==
    IF \A i \in DOMAIN text : text[i] # NL THEN <<text>>
    ELSE LET k == CHOOSE i \in DOMAIN text :
                      text[i] = NL /\ \A j \in 1..(i - 1) : text[j] # NL
         IN  <<SubSeq(text, 1, k - 1)>> \o split(SubSeq(text, k + 1, Len(text)))

\* "\n".join(lines)
RECURSIVE join(_)
join(lines) ==
    IF lines = <<>> THEN <<>>
    ELSE IF Len(lines) = 1 THEN lines[1]
    ELSE lines[1] \o <<NL>> \o join(Tail(lines))

\* The characters str.strip() removes, as far as they occur here.
Whitespace == {" ", "\t", NL}

\* s.strip(), for a text every chunk of which is one character, as are all
\* the texts the str functions below are applied to.
strip(s) ==
    LET first == CHOOSE i \in 1..(Len(s) + 1) :
                     /\ i = Len(s) + 1 \/ s[i] \notin Whitespace
                     /\ \A j \in 1..(i - 1) : s[j] \in Whitespace
        last  == CHOOSE i \in 0..Len(s) :
                     /\ i = 0 \/ s[i] \notin Whitespace
                     /\ \A j \in (i + 1)..Len(s) : s[j] \in Whitespace
    IN  SubSeq(s, first, last)

\* s.startswith(prefix)
startswith(s, prefix) ==
    Len(s) >= Len(prefix) /\ SubSeq(s, 1, Len(prefix)) = prefix

\* sub occurs in s at position i.
occurs_at(s, sub, i) ==
    /\ i + Len(sub) - 1 <= Len(s)
    /\ s[i] = sub[1]
    /\ SubSeq(s, i, i + Len(sub) - 1) = sub

\* sub in s
contains(s, sub) == \E i \in DOMAIN s : occurs_at(s, sub, i)

\* s.split(sub)[-1] for a sub that occurs in s and cannot overlap itself:
\* what follows its last occurrence.
after_last(s, sub) ==
    LET k == CHOOSE i \in DOMAIN s :
                 /\ occurs_at(s, sub, i)
                 /\ \A j \in (i + 1)..Len(s) : ~occurs_at(s, sub, j)
    IN  SubSeq(s, k + Len(sub), Len(s))

\* s[n:]
from(s, n) == SubSeq(s, n + 1, Len(s))

\* A slice that keeps one character more.
cut_one_more(s, n) == SubSeq(s, 1, IF Len(s) < n + 1 THEN Len(s) ELSE n + 1)

\* s[:n]
cut(s, n) == SubSeq(s, 1, IF Len(s) < n THEN Len(s) ELSE n)

\* The number of characters kept of an error message and of a skip reason.
MessageLimit == 500
SkipReasonLimit == 200

UnknownError ==
    <<"U", "n", "k", "n", "o", "w", "n", " ", "e", "r", "r", "o", "r">>
ExpectedFailure ==
    <<"E", "x", "p", "e", "c", "t", "e", "d", " ", "f", "a", "i", "l", "u",
      "r", "e">>
TestWasSkipped ==
    <<"T", "e", "s", "t", " ", "w", "a", "s", " ", "s", "k", "i", "p", "p",
      "e", "d">>
Skipped ==
    <<"S", "k", "i", "p", "p", "e", "d", ":">>

\* CustomReport._extract_error_message for a report without excinfo, as the
\* TestReport objects of the host are; rep.longrepr is str(report.longrepr),
\* empty for a longrepr that is None.
_extract_error_message(rep) ==
    IF rep.longrepr # <<>>
    THEN LET lines == split(rep.longrepr)
             IsE(i) == \/ startswith(strip(lines[i]), <<"E", " ">>)
                       \/ startswith(strip(lines[i]), <<"E", "\t">>)
             IsMeaningful(i) ==
                 /\ strip(lines[i]) # <<>>
                 /\ ~startswith(strip(lines[i]), <<">">>)
                 /\ ~startswith(strip(lines[i]), <<"d", "e", "f", " ">>)
                 /\ ~startswith(strip(lines[i]), <<"c", "l", "a", "s", "s", " ">>)
         IN  IF \E i \in DOMAIN lines : IsE(i)
             THEN LET k == CHOOSE i \in DOMAIN lines :
                               IsE(i) /\ \A j \in 1..(i - 1) : ~IsE(j)
                  IN  cut(strip(from(strip(lines[k]), 2)), MessageLimit)
             ELSE IF \E i \in DOMAIN lines : IsMeaningful(i)
             THEN LET k == CHOOSE i \in DOMAIN lines :
                               IsMeaningful(i) /\ \A j \in 1..(i - 1) : ~IsMeaningful(j)
                  IN  cut(strip(lines[k]), MessageLimit)
             ELSE cut(lines[1], MessageLimit)
    ELSE UnknownError

\* CustomReport._extract_skip_reason.  Its second test of "Skipped:" stands
\* behind the first one, which returns, and is never reached.
_extract_skip_reason(rep) ==
    IF rep.longrepr # <<>>
    THEN LET skip_reason == rep.longrepr
         IN  IF contains(skip_reason, Skipped)
             THEN cut(strip(after_last(skip_reason, Skipped)), SkipReasonLimit)
             ELSE cut(skip_reason, SkipReasonLimit)
    ELSE IF "wasxfail" \in DOMAIN rep THEN ExpectedFailure
    ELSE TestWasSkipped

\* The number of lines above which a traceback is cut, and the number of
\* lines kept at either end.
MaxTracebackLines == 20
KeptLines == 10

\* The line put in place of the lines cut out.
Ellipsis == <<"...">>

\* A _truncate_traceback that puts no line in place of the lines cut out.
_truncate_traceback_no_marker(text) ==
    LET lines == split(text)
    IN  IF Len(lines) > MaxTracebackLines
        THEN join(SubSeq(lines, 1, KeptLines)
                  \o SubSeq(lines, Len(lines) - KeptLines + 1, Len(lines)))
        ELSE join(lines)

\* CustomReport._truncate_traceback
_truncate_traceback(text) ==
    LET lines == split(text)
    IN  IF Len(lines) > MaxTracebackLines
        THEN join(SubSeq(lines, 1, KeptLines) \o <<Ellipsis>>
                  \o SubSeq(lines, Len(lines) - KeptLines + 1, Len(lines)))
        ELSE join(lines)

\* _update_summary without its else branch: an outcome outside the four
\* named ones is counted in the total only.
_update_summary_no_else(summary, result) ==
    LET counted == [summary EXCEPT !["tests"] = @ + 1]
    IN  IF value(result) \in {"passed", "failed", "skipped", "error"}
        THEN [counted EXCEPT ![value(result)] = @ + 1]
        ELSE counted

\* CustomReport._update_summary
_update_summary(summary, result) ==
    LET counted == [summary EXCEPT !["tests"] = @ + 1]
    IN  IF value(result) \in {"passed", "failed", "skipped", "error"}
        THEN [counted EXCEPT ![value(result)] = @ + 1]
        ELSE [counted EXCEPT !["other"] = @ + 1]

\* A mark whose kwargs is not a dict: mark.kwargs.get raises.
NoKwargs == "<kwargs has no get>"

\* An extraction that takes the first argument of the first allure_label
\* mark, whatever its label_type.
RECURSIVE allure_id_of_any_label(_)
allure_id_of_any_label(markers) ==
    IF markers = <<>> THEN None
    ELSE LET mark == Head(markers)
         IN  IF mark.name # "allure_label" THEN allure_id_of_any_label(Tail(markers))
             ELSE IF mark.label_type = NoKwargs THEN None
             ELSE IF mark.args # <<>> THEN mark.args[1]
             ELSE allure_id_of_any_label(Tail(markers))

\* The allure_id add_test extracts from the marks of an item: the first
\* argument of the first allure_label mark of label_type "as_id" that has
\* arguments; None when there is none or when the search raises, which the
\* except around it swallows.
RECURSIVE allure_id_of(_)
allure_id_of(markers) ==
    IF markers = <<>> THEN None
    ELSE LET mark == Head(markers)
         IN  IF mark.name # "allure_label" THEN allure_id_of(Tail(markers))
             ELSE IF mark.label_type = NoKwargs THEN None
             ELSE IF mark.label_type = "as_id" /\ mark.args # <<>> THEN mark.args[1]
             ELSE allure_id_of(Tail(markers))

\* What add_test logs for a record it is about to append: "Test failed" at
\* warning level for a FAILED one, "Test error" at error level for an ERROR
\* one, nothing at these levels otherwise.
test_logged(result) ==
    CASE result = "FAILED" -> {"Test failed"}
      [] result = "ERROR"  -> {"Test error"}
      [] OTHER             -> {}

\* An add_test that extracts a message and a trace whatever the outcome.
add_test_always_detailed(self, item, rep, result) ==
    LET duration == IF rep.when = "call" THEN rep.duration ELSE 0
        marks    == [i \in DOMAIN item.markers |-> item.markers[i].name]
        kwargs   == [nodeid     |-> item.nodeid,
                     name       |-> item.name,
                     duration   |-> duration,
                     start_time |-> [datetime |-> self.start_time],
                     result     |-> result,
                     marks      |-> marks,
                     allure_id  |-> allure_id_of(item.markers)]
        test_result ==
            [TestResultModel(kwargs) EXCEPT
                 !.message = _extract_error_message(rep),
                 !.stack_trace = IF rep.longrepr # <<>>
                                 THEN _truncate_traceback(rep.longrepr) ELSE @]
    IN  IF ~item.iter_markers_raises /\ ValidationOk(kwargs)
        THEN [self   |-> [self EXCEPT !.tests = Append(@, test_result),
                                      !.summary = _update_summary(@, result)],
              logged |-> test_logged(result)]
        ELSE [self |-> self, logged |-> {"Failed to add test to report"}]

\* CustomReport.add_test: the report after the call, and what it logged at
\* warning or error level: the outcome of a FAILED or ERROR record, or
\* "Failed to add test to report" in the except branch, which is reached
\* before the outcome is logged.
add_test(self, item, rep, result) ==
    LET duration == IF rep.when = "call" THEN rep.duration ELSE 0
        marks    == [i \in DOMAIN item.markers |-> item.markers[i].name]
        kwargs   == [nodeid     |-> item.nodeid,
                     name       |-> item.name,
                     duration   |-> duration,
                     start_time |-> [datetime |-> self.start_time],
                     result     |-> result,
                     marks      |-> marks,
                     allure_id  |-> allure_id_of(item.markers)]
        created  == TestResultModel(kwargs)
        test_result ==
            IF result \in {"FAILED", "ERROR"}
            THEN [created EXCEPT
                      !.message = _extract_error_message(rep),
                      !.stack_trace = IF rep.longrepr # <<>>
                                      THEN _truncate_traceback(rep.longrepr) ELSE @]
            ELSE IF result = "SKIPPED"
            THEN [created EXCEPT !.message = _extract_skip_reason(rep)]
            ELSE created
    IN  IF ~item.iter_markers_raises /\ ValidationOk(kwargs)
        THEN [self   |-> [self EXCEPT !.tests = Append(@, test_result),
                                      !.summary = _update_summary(@, result)],
              logged |-> test_logged(result)]
        ELSE [self |-> self, logged |-> {"Failed to add test to report"}]

\* float("inf"), a duration that int() refuses to convert.
inf == 2 ^ 30

\* The CTRF entry finalize builds for a record: the duration in whole
\* milliseconds, an optional field only when its value is truthy.
ctrf_dict(test) ==
    LET Optional(key, val, truthy) == IF truthy THEN [k \in {key} |-> val] ELSE <<>>
    IN  [name     |-> test.nodeid,
         status   |-> value(test.result),
         duration |-> test.duration \div 1000]
        @@ Optional("message", test.message, test.message \notin {NoText, <<>>})
        @@ Optional("trace", test.stack_trace, test.stack_trace \notin {NoText, <<>>})
        @@ Optional("marks", test.marks, test.marks # <<>>)
        @@ Optional("allure_id", test.allure_id, test.allure_id \notin {None, ""})

\* A finalize whose except branch hands back a fresh summary.
finalize_fresh_summary(self) ==
    IF \E i \in DOMAIN self.tests : self.tests[i].duration = inf
    THEN [summary |-> [k \in SummaryKeys |-> 0], tests |-> self.tests, error |-> TRUE]
    ELSE [summary |-> self.summary,
          tests   |-> [i \in 1..Len(self.tests) |-> ctrf_dict(self.tests[i])],
          error   |-> FALSE]

\* CustomReport.finalize: the report handed back: its summary, its tests and
\* whether its extra section has the error key.  Building the CTRF entries
\* raises for a duration int() cannot convert; the except branch then hands
\* back the records themselves.
finalize(self) ==
    IF \E i \in DOMAIN self.tests : self.tests[i].duration = inf
    THEN [summary |-> self.summary, tests |-> self.tests, error |-> TRUE]
    ELSE [summary |-> self.summary,
          tests   |-> [i \in 1..Len(self.tests) |-> ctrf_dict(self.tests[i])],
          error   |-> FALSE]

\* What finalize logged at error level for the report final it handed back:
\* the message of its except branch.
finalize_logged(final) ==
    IF final.error THEN {"Failed to finalize report, returning partial report"}
    ELSE {}

\* The report finalize returned, as it reads once the accumulator has become
\* self: its summary is self.summary itself, not a copy, and so are the tests
\* handed back by the except branch; the CTRF entries are a list of their own.
read_through(returned, self) ==
    IF ~returned.returned THEN returned
    ELSE [returned EXCEPT !.summary = self.summary,
                          !.tests = IF returned.error THEN self.tests ELSE @]

(***************************************************************************)
(* plugin.py: CustomReporterPlugin.                                        *)
(***************************************************************************)
\* A mapping without the case of the setup phase.
_map_outcome_to_result_any_phase(rep) ==
    CASE rep.outcome = "passed"  -> "PASSED"
      [] rep.outcome = "failed"  -> "FAILED"
      [] rep.outcome = "skipped" -> "SKIPPED"
      [] rep.outcome = "error"   -> "ERROR"
      [] OTHER                   -> "OTHER"

\* CustomReporterPlugin._map_outcome_to_result
_map_outcome_to_result(rep) ==
    IF rep.when = "setup" /\ rep.outcome = "failed" THEN "ERROR"
    ELSE CASE rep.outcome = "passed"  -> "PASSED"
           [] rep.outcome = "failed"  -> "FAILED"
           [] rep.outcome = "skipped" -> "SKIPPED"
           [] rep.outcome = "error"   -> "ERROR"
           [] OTHER                   -> "OTHER"

\* A plugin that takes every process for the coordinator.
_is_worker_never(p) == FALSE

\* CustomReporterPlugin._is_worker: xdist.get_xdist_worker_id(session) != "master"
_is_worker(p) == p # "master"

\* pytest_runtest_makereport processing every setup report, whatever its outcome.
makereport_every_setup(self, processed, item, rep) ==
    LET should_process == rep.when = "call" \/ rep.when = "setup"
        is_new_test == rep.when = "call" \/ item.nodeid \notin processed
        added == add_test(self, item, rep, _map_outcome_to_result(rep))
    IN  IF should_process /\ is_new_test
        THEN [self |-> added.self, processed |-> processed \cup {item.nodeid},
              logged |-> added.logged]
        ELSE [self |-> self, processed |-> processed, logged |-> {}]

\* pytest_runtest_makereport processing a failed teardown report as well.
makereport_failed_teardown(self, processed, item, rep) ==
    LET should_process ==
            \/ rep.when = "call"
            \/ rep.when = "setup" /\ rep.outcome \in {"skipped", "failed", "error"}
            \/ rep.when = "teardown" /\ rep.outcome = "failed"
        is_new_test == rep.when \in {"call", "teardown"} \/ item.nodeid \notin processed
        added == add_test(self, item, rep, _map_outcome_to_result(rep))
    IN  IF should_process /\ is_new_test
        THEN [self |-> added.self, processed |-> processed \cup {item.nodeid},
              logged |-> added.logged]
        ELSE [self |-> self, processed |-> processed, logged |-> {}]

\* The body of pytest_runtest_makereport after the host's report is obtained:
\* the plugin's report and _processed_tests after the call, and what add_test
\* logged at warning or error level.
makereport(self, processed, item, rep) ==
    LET should_process ==
            \/ rep.when = "call"
            \/ rep.when = "setup" /\ rep.outcome \in {"skipped", "failed", "error"}
        is_new_test == rep.when = "call" \/ item.nodeid \notin processed
        added == add_test(self, item, rep, _map_outcome_to_result(rep))
    IN  IF should_process /\ is_new_test
        THEN [self |-> added.self, processed |-> processed \cup {item.nodeid},
              logged |-> added.logged]
        ELSE [self |-> self, processed |-> processed, logged |-> {}]

\* An import that skips an entry whose nodeid the coordinator already holds.
RECURSIVE import_tests_dedup(_, _)
import_tests_dedup(self, entries) ==
    IF entries = <<>> THEN [self |-> self, raised |-> FALSE]
    ELSE LET test_dict == Head(entries)
         IN  IF ~ValidationOk(test_dict) THEN [self |-> self, raised |-> TRUE]
             ELSE LET test_model == TestResultModel(test_dict)
                  IN  IF \E i \in DOMAIN self.tests : self.tests[i].nodeid = test_model.nodeid
                      THEN import_tests_dedup(self, Tail(entries))
                      ELSE import_tests_dedup(
                               [self EXCEPT !.tests = Append(@, test_model),
                                            !.summary = _update_summary(@, test_model.result)],
                               Tail(entries))

\* An import that puts each record in front of those the coordinator holds.
RECURSIVE import_tests_in_front(_, _)
import_tests_in_front(self, entries) ==
    IF entries = <<>> THEN [self |-> self, raised |-> FALSE]
    ELSE LET test_dict == Head(entries)
         IN  IF ~ValidationOk(test_dict) THEN [self |-> self, raised |-> TRUE]
             ELSE LET test_model == TestResultModel(test_dict)
                  IN  import_tests_in_front(
                          [self EXCEPT !.tests = <<test_model>> \o @,
                                       !.summary = _update_summary(@, test_model.result)],
                          Tail(entries))

\* The loop of pytest_testnodedown over worker_results["tests"]: each entry is
\* validated, appended and counted; a ValidationError is neither an
\* AttributeError nor a KeyError, so it ends the loop and leaves the hook.
RECURSIVE import_tests(_, _)
import_tests(self, entries) ==
    IF entries = <<>> THEN [self |-> self, raised |-> FALSE]
    ELSE LET test_dict == Head(entries)
         IN  IF ~ValidationOk(test_dict) THEN [self |-> self, raised |-> TRUE]
             ELSE LET test_model == TestResultModel(test_dict)
                  IN  import_tests(
                          [self EXCEPT !.tests = Append(@, test_model),
                                       !.summary = _update_summary(@, test_model.result)],
                          Tail(entries))

\* A pytest_testnodedown that lets the AttributeError escape for a node
\* without the workeroutput attribute.
testnodedown_no_hasattr(self, node) ==
    IF "workeroutput" \notin DOMAIN node THEN [self |-> self, raised |-> TRUE]
    ELSE IF "custom_reporter_results" \in DOMAIN node.workeroutput
    THEN LET worker_results == node.workeroutput.custom_reporter_results
         IN  IF "tests" \in DOMAIN worker_results
             THEN import_tests(self, worker_results.tests)
             ELSE [self |-> self, raised |-> FALSE]
    ELSE [self |-> self, raised |-> FALSE]

\* pytest_testnodedown on the report self for the node that went down.
testnodedown(self, node) ==
    IF /\ "workeroutput" \in DOMAIN node
       /\ "custom_reporter_results" \in DOMAIN node.workeroutput
    THEN LET worker_results == node.workeroutput.custom_reporter_results
         IN  IF "tests" \in DOMAIN worker_results
             THEN import_tests(self, worker_results.tests)
             ELSE [self |-> self, raised |-> FALSE]
    ELSE [self |-> self, raised |-> FALSE]

\* A payload that holds only the nodeid, name, duration and result of a record.
worker_results_brief(self) ==
    [tests |-> [i \in 1..Len(self.tests) |->
                   [nodeid   |-> self.tests[i].nodeid,
                    name     |-> self.tests[i].name,
                    duration |-> self.tests[i].duration,
                    result   |-> value(self.tests[i].result)]],
     start |-> self.start_time]

\* The worker branch of pytest_sessionfinish: what is stored under
\* session.config.workeroutput["custom_reporter_results"].
worker_results_of(self) ==
    [tests |-> [i \in 1..Len(self.tests) |-> model_dump(self.tests[i])],
     start |-> self.start_time]

\* A worker branch that publishes the records serialized before the failure.
publish_partial(self, workeroutput_, failing) ==
    IF failing \in DOMAIN self.tests
    THEN [workeroutput |->
              [workerid |-> workeroutput_.workerid,
               custom_reporter_results |->
                   [tests |-> [i \in 1..(failing - 1) |-> model_dump(self.tests[i])],
                    start |-> self.start_time]],
          logged |-> TRUE]
    ELSE [workeroutput |->
              [workerid |-> workeroutput_.workerid,
               custom_reporter_results |-> worker_results_of(self)],
          logged |-> FALSE]

\* The worker branch of pytest_sessionfinish: session.config.workeroutput
\* after it, and whether "Failed to send worker results to master" was
\* logged.  The list of dumps is complete before it is stored: when the dump
\* of record number failing raises, nothing is stored.
publish(self, workeroutput_, failing) ==
    IF failing \in DOMAIN self.tests
    THEN [workeroutput |-> workeroutput_, logged |-> TRUE]
    ELSE [workeroutput |->
              [workerid |-> workeroutput_.workerid,
               custom_reporter_results |-> worker_results_of(self)],
          logged |-> FALSE]

(***************************************************************************)
(* pathlib.Path on a POSIX host, as far as _generate_output_path uses it.  *)
(* A path string is the sequence of its characters; a Path is its root     *)
(* ("", "/" or "//") and its parts after the root.                         *)
(***************************************************************************)
Sep == "/"
Dot == "."

\* The chunks of s between separators.
RECURSIVE split_sep(_)
split_sep(s) ==
    IF \A i \in DOMAIN s : s[i] # Sep THEN <<s>>
    ELSE LET k == CHOOSE i \in DOMAIN s :
                      s[i] = Sep /\ \A j \in 1..(i - 1) : s[j] # Sep
         IN  <<SubSeq(s, 1, k - 1)>> \o split_sep(SubSeq(s, k + 1, Len(s)))

\* "/".join(parts)
RECURSIVE join_sep(_)
join_sep(parts) ==
    IF parts = <<>> THEN <<>>
    ELSE IF Len(parts) = 1 THEN parts[1]
    ELSE parts[1] \o <<Sep>> \o join_sep(Tail(parts))

\* Path(s): one leading separator or three and more make the root "/", two
\* make the root "//"; empty chunks and "." chunks are dropped.
Path(s) ==
    [root  |-> IF s = <<>> \/ s[1] # Sep THEN <<>>
               ELSE IF Len(s) >= 2 /\ s[2] = Sep /\ (Len(s) = 2 \/ s[3] # Sep)
               THEN <<Sep, Sep>>
               ELSE <<Sep>>,
     parts |-> SelectSeq(split_sep(s), LAMBDA c : c \notin {<<>>, <<Dot>>})]

\* str(path)
str_path(path) ==
    IF path.root = <<>> /\ path.parts = <<>> THEN <<Dot>>
    ELSE path.root \o join_sep(path.parts)

is_absolute(path) == path.root # <<>>

\* path.parent
parent(path) ==
    IF path.parts = <<>> THEN path
    ELSE [path EXCEPT !.parts = SubSeq(@, 1, Len(@) - 1)]

\* path.name
name(path) ==
    IF path.parts = <<>> THEN <<>> ELSE path.parts[Len(path.parts)]

\* The position of the dot that starts the suffix of a file name: the last
\* dot, when it is neither the first nor the last character; 0 when none.
suffix_at(n) ==
    LET dots == {i \in DOMAIN n : n[i] = Dot}
        last == IF dots = {} THEN 0 ELSE CHOOSE i \in dots : \A j \in dots : j <= i
    IN  IF 1 < last /\ last < Len(n) THEN last ELSE 0

\* path.suffix
suffix(path) ==
    LET n == name(path)
    IN  IF suffix_at(n) = 0 THEN <<>> ELSE SubSeq(n, suffix_at(n), Len(n))

\* path.stem
stem(path) ==
    LET n == name(path)
    IN  IF suffix_at(n) = 0 THEN n ELSE SubSeq(n, 1, suffix_at(n) - 1)

\* What a call returns that raised ValueError instead.
ValueError == <<"ValueError">>

\* path.with_suffix(ext); a path without a name raises ValueError.
with_suffix(path, ext) ==
    IF name(path) = <<>> THEN ValueError
    ELSE str_path([path EXCEPT !.parts[Len(path.parts)] = stem(path) \o ext])

\* datetime.now().strftime("%Y%m%d-%H%M%S") when the plugin is constructed.
timestamp == <<"2", "0", "2", "4", "0", "1", "0", "2", "-", "0", "3", "0", "4", "0", "5">>

ReportsDir == <<"c", "u", "s", "t", "o", "m", "_", "r", "e", "p", "o", "r", "t", "s">>
ReportStem == <<"r", "e", "p", "o", "r", "t">>

\* default_extension = f".{self.report_format}"
default_extension(self) == <<Dot>> \o self.report_format

\* CustomReporterPlugin._generate_output_path: the path of the report file,
\* ValueError when with_suffix raised.
_generate_output_path(self, file) ==
    IF file \notin {NoText, <<>>}
    THEN LET user_path == Path(file)
         IN  IF is_absolute(user_path) \/ parent(user_path) # Path(<<>>)
             THEN IF suffix(user_path) = <<>>
                  THEN with_suffix(user_path, default_extension(self))
                  ELSE str_path(user_path)
             ELSE ReportsDir \o <<Sep>> \o stem(user_path) \o <<"-">> \o timestamp
                  \o (IF suffix(user_path) # <<>> THEN suffix(user_path)
                      ELSE default_extension(self))
    ELSE ReportsDir \o <<Sep>> \o ReportStem \o <<"-">> \o timestamp
         \o default_extension(self)

(***************************************************************************)
(* The host: the test items, the phase reports of a test run and the       *)
(* nodes whose output was not written by a worker of this session.         *)
(***************************************************************************)
\* The clock reading at which the plugin of process p is constructed.
clock(p) ==
    CASE p = "master" -> 1000
      [] p = "gw0"    -> 2250
      [] p = "gw1"    -> 2500
      [] OTHER        -> 500

name_of(nodeid) == IF nodeid = "a" THEN "test_a" ELSE "test_b"

\* The marks of the test with nodeid: a has a plain mark and an allure id, b none.
markers_of(nodeid) ==
    IF nodeid = "a"
    THEN <<[name |-> "slow", args |-> <<>>, label_type |-> None],
           [name |-> "allure_label", args |-> <<"101">>, label_type |-> "as_id"]>>
    ELSE <<>>

\* The collected items, and one more whose name is no str: it makes add_test fail.
Items ==
    {[nodeid |-> n, name |-> name_of(n), markers |-> markers_of(n),
      iter_markers_raises |-> FALSE] : n \in NodeIds}
    \cup {[nodeid |-> "b", name |-> NotAStr, markers |-> <<>>,
           iter_markers_raises |-> FALSE]}

\* Items whose marks cannot be read: iter_markers raises for one, the
\* kwargs of the allure_label mark of the other is no dict.
FaultyItems ==
    {[nodeid |-> "a", name |-> "test_a", markers |-> <<>>,
      iter_markers_raises |-> TRUE],
     [nodeid |-> "b", name |-> "test_b",
      markers |-> <<[name |-> "allure_label", args |-> <<"102">>,
                     label_type |-> NoKwargs]>>,
      iter_markers_raises |-> FALSE]}

\* The tests the scheduler gives process p: each test goes to one worker.
Scheduled(p) ==
    CASE p = "gw0" -> {"a"}
      [] p = "gw1" -> {"b"}
      [] OTHER     -> NodeIds

SetupOutcomes == {"passed", "failed", "skipped"}
\* "rerun" is the outcome pytest-rerunfailures gives a report it will repeat.
CallOutcomes == {"passed", "failed", "skipped", "rerun"}
TeardownOutcomes == {"passed", "failed"}

duration_of(when) ==
    CASE when = "setup"    -> 1500
      [] when = "call"     -> 7500
      [] when = "teardown" -> 500

\* The str of the longrepr of a phase that raised, and of one that was
\* skipped: ('t', 3, 'Skipped: off').
Traceback ==
    <<"d", "e", "f", " ", "t", "(", ")", ":", NL, ">", " ", " ", " ", "f",
      "(", ")", NL, "E", " ", " ", " ", "b", "o", "o", "m">>
SkipLocation ==
    <<"(", "'", "t", "'", ",", " ", "3", ",", " ", "'", "S", "k", "i", "p",
      "p", "e", "d", ":", " ", "o", "f", "f", "'", ")">>

\* str(report.longrepr): nothing for a passed phase, the skip location and
\* reason for a skipped one, the traceback otherwise.
longrepr_of(outcome) ==
    CASE outcome = "passed"  -> <<>>
      [] outcome = "skipped" -> SkipLocation
      [] OTHER -> Traceback

Report(when, outcome) ==
    [when |-> when, outcome |-> outcome, duration |-> duration_of(when),
     longrepr |-> longrepr_of(outcome)]

Reports ==
    {Report("setup", o) : o \in SetupOutcomes}
    \cup {Report("call", o) : o \in CallOutcomes}
    \cup {Report("teardown", o) : o \in TeardownOutcomes}

SeqsUpTo(S, n) == UNION {[1..k -> S] : k \in 0..n}
Range(s) == {s[i] : i \in DOMAIN s}

\* Entries of a payload that no worker of this session wrote: a well-formed
\* one, one without the result key, one without the nodeid key.
ForeignEntries ==
    {[nodeid |-> "a", name |-> "test_a", duration |-> 2000, result |-> "pending"],
     [nodeid |-> "b", name |-> "test_b", duration |-> 3000],
     [name |-> "test_a", duration |-> 4000, result |-> "passed"]}

ForeignNode == "gw9"
\* The nodes with such a payload: up to MaxPayload entries, none of them twice.
ForeignNodes ==
    {[workerid |-> ForeignNode,
      workeroutput |-> [workerid |-> ForeignNode,
                        custom_reporter_results |-> [tests |-> s, start |-> clock(ForeignNode)]]] :
        s \in {t \in SeqsUpTo(ForeignEntries, MaxPayload) :
                   \A i, j \in DOMAIN t : i # j => t[i] # t[j]}}

\* The processes that run tests: the workers of a distributed session, the
\* single process of a plain one.
Runs(p) == IF xdist THEN p \in Workers ELSE p = Master

\* The phase the runner delivers next in p ("setup" starts a new run).
next_phase(p) ==
    IF runs[p] = <<>> \/ runs[p][Len(runs[p])].done THEN "setup"
    ELSE IF runs[p][Len(runs[p])].setup = "passed" /\ runs[p][Len(runs[p])].call = "-"
         THEN "call" ELSE "teardown"

\* runs[p] after the runner delivered rep for item.
runs_after(p, item, rep) ==
    LET n == Len(runs[p])
    IN  CASE rep.when = "setup" ->
               Append(runs[p], [item |-> item, setup |-> rep.outcome,
                                call |-> "-", done |-> FALSE])
          [] rep.when = "call" -> [runs[p] EXCEPT ![n].call = rep.outcome]
          [] rep.when = "teardown" -> [runs[p] EXCEPT ![n].done = TRUE]

NoReport ==
    [summary |-> [k \in SummaryKeys |-> 0], tests |-> <<>>, error |-> FALSE,
     returned |-> FALSE]

\* No result is in the hands of _worker.
NoResult == [test_name |-> 0]

\* DBHandler.__init__: an empty queue, the stop event clear, the worker
\* thread started and about to test its loop condition; no hook called yet.
InitDBHandler ==
    /\ queue = <<>>
    /\ stop_event = FALSE
    /\ worker_thread = "while"
    /\ in_hand = NoResult
    /\ saved = <<>>
    /\ rolled_back = <<>>
    /\ main_thread = "running"
    /\ enqueued = <<>>

\* No report was handled yet.
NoPhase == [when |-> "-"]

InitPlugin ==
    /\ xdist \in BOOLEAN
    /\ report = [p \in Procs |-> CustomReport(clock(p))]
    /\ processed_tests = [p \in Procs |-> {}]
    /\ runs = [p \in Procs |-> <<>>]
    /\ hooked = [p \in Procs |-> <<>>]
    /\ finished = [p \in Procs |-> FALSE]
    /\ workeroutput = [w \in Workers |-> [workerid |-> w]]
    /\ down = {}
    /\ last_node = [workerid |-> "none"]
    /\ final_report = NoReport
    /\ finalized = [p \in Procs |-> 0]
    /\ raised = FALSE
    /\ errlog = {}
    /\ inputs = 0
    /\ last_report = NoPhase
    /\ io = <<>>
    /\ InitDBHandler

\* The formats of --custom-report-format.
Json == <<"j", "s", "o", "n">>
Yaml == <<"y", "a", "m", "l">>

\* A session started without --custom-report-file, in the default format,
\* after pytest_configure constructed and registered the plugin.
InitPath ==
    /\ report_format = Json
    /\ user_specified_file = NoText
    /\ output_file = _generate_output_path([report_format |-> Json], NoText)
    /\ registered = TRUE

\* A session without --custom-report-url, on a host whose file system works.
Init ==
    /\ InitPlugin /\ longrepr_str = <<>> /\ truncated = NoText /\ InitPath
    /\ remote_url = None

\* The hook in process p for the report rep of item's next phase.
hook_makereport(p, item, rep) ==
    /\ Runs(p) /\ ~finished[p] /\ p \notin down
    /\ rep.when = next_phase(p)
    /\ IF rep.when = "setup" THEN inputs < MaxInputs
       ELSE item = runs[p][Len(runs[p])].item
    /\ LET r == makereport(report[p], processed_tests[p], item, rep)
       IN  /\ report' = [report EXCEPT ![p] = r.self]
           /\ processed_tests' = [processed_tests EXCEPT ![p] = r.processed]
           /\ hooked' = [hooked EXCEPT ![p] =
                            @ \o [i \in 1..(Len(r.self.tests) - Len(report[p].tests)) |->
                                    [when |-> rep.when,
                                     test |-> r.self.tests[Len(report[p].tests) + i]]]]
           /\ errlog' = errlog \cup r.logged
    /\ runs' = [runs EXCEPT ![p] = runs_after(p, item, rep)]
    /\ inputs' = IF rep.when = "setup" THEN inputs + 1 ELSE inputs
    /\ UNCHANGED <<xdist, finished, workeroutput, down, last_node, final_report,
                   finalized, raised,
                   longrepr_str, truncated, path_vars, remote_url, io, db_vars>>

\* The runner of process p delivers the report rep of item's next phase.
pytest_runtest_makereport(p, item, rep) ==
    /\ rep.when = "setup" => item.nodeid \in Scheduled(p)
    /\ hook_makereport(p, item, rep)
    /\ UNCHANGED last_report

\* What can go wrong at the end of the coordinator's session: nothing, the
\* directory cannot be created, the file cannot be written, or the POST
\* times out, gets an error status or fails otherwise.
Faults == {"none", "mkdir", "write", "timeout", "status", "post"}

Event(p, op, ok) == [proc |-> p, op |-> op, ok |-> ok]

\* CustomReporterPlugin._send_to_remote_server: the POST it makes, if any,
\* and what it logs at error level.  A partial report holds records that
\* cannot be encoded as JSON, so the request is never sent for it.
_send_to_remote_server(self, p, final, fault) ==
    IF self.remote_url \in {None, ""} THEN [io |-> <<>>, logged |-> {}]
    ELSE IF final.error
    THEN [io |-> <<>>, logged |-> {"Failed to send report to remote server"}]
    ELSE CASE fault = "timeout" ->
                [io |-> <<Event(p, "post", FALSE)>>,
                 logged |-> {"Timeout while sending report to remote server"}]
           [] fault = "status" ->
                [io |-> <<Event(p, "post", FALSE)>>,
                 logged |-> {"HTTP error while sending report to remote server"}]
           [] fault = "post" ->
                [io |-> <<Event(p, "post", FALSE)>>,
                 logged |-> {"Failed to send report to remote server"}]
           [] OTHER -> [io |-> <<Event(p, "post", TRUE)>>, logged |-> {}]

\* A coordinator that sends the report although the file was not written.
save_and_send_anyway(self, p, final, fault) ==
    LET mkdir_ok == fault # "mkdir"
        write_ok == fault # "write" /\ ~(final.error /\ self.report_format = Json)
        sent     == _send_to_remote_server(self, p, final, fault)
    IN  IF ~mkdir_ok
        THEN [io |-> <<Event(p, "mkdir", FALSE)>> \o sent.io,
              logged |-> {"Failed to create output directory"} \cup sent.logged]
        ELSE IF ~write_ok
        THEN [io |-> <<Event(p, "mkdir", TRUE), Event(p, "write", FALSE)>> \o sent.io,
              logged |-> {"Failed to write report file"} \cup sent.logged]
        ELSE [io |-> <<Event(p, "mkdir", TRUE), Event(p, "write", TRUE)>> \o sent.io,
              logged |-> sent.logged]

\* The coordinator's pytest_sessionfinish after finalize: the directory, the
\* file, then the POST; a failure of the first two ends the hook.  json.dump
\* cannot encode the records of a partial report, yaml.dump can.
save_and_send(self, p, final, fault) ==
    LET mkdir_ok == fault # "mkdir"
        write_ok == fault # "write" /\ ~(final.error /\ self.report_format = Json)
        sent     == _send_to_remote_server(self, p, final, fault)
    IN  IF ~mkdir_ok
        THEN [io |-> <<Event(p, "mkdir", FALSE)>>,
              logged |-> {"Failed to create output directory"}]
        ELSE IF ~write_ok
        THEN [io |-> <<Event(p, "mkdir", TRUE), Event(p, "write", FALSE)>>,
              logged |-> {"Failed to write report file"}]
        ELSE [io |-> <<Event(p, "mkdir", TRUE), Event(p, "write", TRUE)>> \o sent.io,
              logged |-> sent.logged]

\* The session of process p ends: a worker publishes its records, the
\* coordinator (or the only process) finalizes, writes the report file and
\* sends the report.  failing is the number of the record whose model_dump
\* raises in a worker, 0 when none does; fault is what goes wrong with the
\* file or the request.
pytest_sessionfinish(p, failing, fault) ==
    /\ p = Master \/ Runs(p)
    /\ ~finished[p] /\ p \notin down
    /\ next_phase(p) = "setup"
    /\ p = Master /\ xdist => down \cap Workers = Workers
    /\ failing \in 0..(IF p = Master THEN 0 ELSE Len(report[p].tests))
    /\ finished' = [finished EXCEPT ![p] = TRUE]
    /\ IF _is_worker(p)
       THEN LET r == publish(report[p], workeroutput[p], failing)
            IN  /\ workeroutput' = [workeroutput EXCEPT ![p] = r.workeroutput]
                /\ errlog' = IF r.logged
                             THEN errlog \cup {"Failed to send worker results to master"}
                             ELSE errlog
                /\ UNCHANGED <<final_report, finalized, io>>
       ELSE LET final == finalize(report[p])
                 done  == save_and_send([remote_url |-> remote_url,
                                         report_format |-> report_format],
                                        p, final, fault)
            IN  /\ final_report' = final @@ [returned |-> TRUE]
                /\ finalized' = [finalized EXCEPT ![p] = @ + 1]
                /\ io' = io \o <<Event(p, "finalize", TRUE)>> \o done.io
                /\ errlog' = errlog \cup finalize_logged(final) \cup done.logged
                /\ UNCHANGED <<workeroutput>>
    /\ UNCHANGED <<xdist, report, processed_tests, runs, hooked, down, last_node,
                   raised, inputs,
                   longrepr_str, truncated, path_vars, last_report, remote_url,
                   db_vars>>

\* The coordinator's pytest_testnodedown for node.
node_down(node) ==
    /\ ~finished[Master]
    /\ node.workerid \notin down
    /\ LET r == testnodedown(report[Master], node)
       IN  /\ report' = [report EXCEPT ![Master] = r.self]
           /\ raised' = (raised \/ r.raised)
    /\ final_report' = read_through(final_report, report'[Master])
    /\ down' = down \cup {node.workerid}
    /\ last_node' = node
    /\ UNCHANGED <<xdist, processed_tests, runs, hooked, finished, workeroutput,
                   finalized, errlog,
                   longrepr_str, truncated, path_vars, last_report, remote_url, io,
                   db_vars>>

\* A worker of this session went down: with its output if its session
\* finished, without the workeroutput attribute if it crashed before.
pytest_testnodedown_worker(w) ==
    /\ xdist
    /\ node_down(IF finished[w]
                 THEN [workerid |-> w, workeroutput |-> workeroutput[w]]
                 ELSE [workerid |-> w])
    /\ UNCHANGED inputs

\* A node went down whose output was written elsewhere.
pytest_testnodedown_foreign(node) ==
    /\ inputs < MaxInputs
    /\ node_down(node)
    /\ inputs' = inputs + 1

Next ==
    \/ \E p \in Procs, item \in Items, rep \in Reports :
           pytest_runtest_makereport(p, item, rep)
    \/ \E p \in Procs, failing \in 0..MaxInputs : pytest_sessionfinish(p, failing, "none")
    \/ \E w \in Workers : pytest_testnodedown_worker(w)
    \/ \E node \in ForeignNodes : pytest_testnodedown_foreign(node)

Spec == Init /\ [][Next]_vars

(***************************************************************************)
(* The accumulator on its own: a CustomReport (the coordinator's) whose    *)
(* methods are called in any order, also after finalize has returned, with *)
(* items whose marks cannot be read and with outcomes the hook never maps  *)
(* to.                                                                     *)
(***************************************************************************)
DirectItems ==
    {i \in Items : i.nodeid = "a"} \cup FaultyItems

\* The report and the outcome of an add_test call.
DirectCalls ==
    {[report |-> Report("call", "passed"), result |-> "PASSED"],
     [report |-> [Report("call", "failed") EXCEPT !.duration = inf], result |-> "FAILED"],
     [report |-> Report("setup", "skipped"), result |-> "SKIPPED"],
     [report |-> Report("call", "passed"), result |-> "PENDING"]}

InitReport == Init /\ xdist = FALSE

\* self.add_test(item, call.report, call.result) on the coordinator's report.
add_test_call(item, call) ==
    /\ inputs < MaxInputs
    /\ LET r == add_test(report[Master], item, call.report, call.result)
       IN  /\ report' = [report EXCEPT ![Master] = r.self]
           /\ errlog' = errlog \cup r.logged
    /\ final_report' = read_through(final_report, report'[Master])
    /\ inputs' = inputs + 1
    /\ UNCHANGED <<xdist, processed_tests, runs, hooked, finished, workeroutput,
                   down, last_node, finalized, raised,
                   longrepr_str, truncated, path_vars, last_report, remote_url, io,
                   db_vars>>

\* self.finalize() on the coordinator's report.
finalize_call ==
    /\ ~final_report.returned
    /\ LET final == finalize(report[Master])
       IN  /\ final_report' = final @@ [returned |-> TRUE]
           /\ errlog' = errlog \cup finalize_logged(final)
    /\ UNCHANGED <<xdist, report, processed_tests, runs, hooked, finished,
                   workeroutput, down, last_node, finalized, raised, inputs,
                   longrepr_str, truncated, path_vars, last_report, remote_url, io,
                   db_vars>>

NextReport ==
    \/ \E item \in DirectItems, call \in DirectCalls : add_test_call(item, call)
    \/ finalize_call
    \/ \E node \in ForeignNodes : pytest_testnodedown_foreign(node)

SpecReport == InitReport /\ [][NextReport]_vars

(***************************************************************************)
(* A plain session, the report of each hook call kept: its tests are the   *)
(* instances of a parametrized test with an allure id, a test with another *)
(* allure label in front of its id, and a test with a label but no id.     *)
(***************************************************************************)
PlainItems ==
    {[nodeid |-> n, name |-> "test_p",
      markers |-> <<[name |-> "parametrize", args |-> <<"x">>, label_type |-> None],
                    [name |-> "allure_label", args |-> <<"105">>, label_type |-> "as_id"]>>,
      iter_markers_raises |-> FALSE] : n \in {"p[0]", "p[1]"}}
    \cup
    {[nodeid |-> "t", name |-> "test_t",
      markers |-> <<[name |-> "allure_label", args |-> <<"smoke">>, label_type |-> "tag"],
                    [name |-> "allure_label", args |-> <<"103">>, label_type |-> "as_id"]>>,
      iter_markers_raises |-> FALSE],
     [nodeid |-> "n", name |-> "test_n",
      markers |-> <<[name |-> "allure_label", args |-> <<"smoke">>, label_type |-> "tag"]>>,
      iter_markers_raises |-> FALSE]}

InitPlain == Init /\ xdist = FALSE

\* The runner delivers the report rep of the next phase of one of these tests.
pytest_runtest_makereport_plain(item, rep) ==
    /\ hook_makereport(Master, item, rep)
    /\ last_report' = rep

NextPlain ==
    \/ \E item \in PlainItems, rep \in Reports : pytest_runtest_makereport_plain(item, rep)
    \/ pytest_sessionfinish(Master, 0, "none")

SpecPlain == InitPlain /\ [][NextPlain]_vars

(***************************************************************************)
(* The end of the session: a session, plain or distributed, with or        *)
(* without --custom-report-url, at whose end the directory, the file or    *)
(* the request may fail.                                                   *)
(***************************************************************************)
Url == "http://reports/upload"

InitSession ==
    /\ InitPlugin /\ longrepr_str = <<>> /\ truncated = NoText /\ InitPath
    /\ remote_url \in {None, Url}

NextSession ==
    \/ \E p \in Procs, item \in Items, rep \in Reports :
           pytest_runtest_makereport(p, item, rep)
    \/ \E p \in Procs, fault \in Faults : pytest_sessionfinish(p, 0, fault)
    \/ \E w \in Workers : pytest_testnodedown_worker(w)

SpecSession == InitSession /\ [][NextSession]_vars

(***************************************************************************)
(* pytest_custom_reporter.py: the DBHandler.  The thread of the hooks      *)
(* calls add_result for up to MaxResults call reports and then close; the  *)
(* worker thread runs _worker.  Each action is one step of one thread, so  *)
(* the steps of the two interleave in every order.  A thread that can take *)
(* a step takes one in the end: the host schedules both, and               *)
(* queue.get(timeout=1) returns after a second at the latest.              *)
(***************************************************************************)
\* Where _worker goes after it read stop_event, for a loop that ends as
\* soon as the event is set.
after_is_set_no_drain(is_set) == IF ~is_set THEN "get" ELSE "close"

\* Where _worker goes after it read stop_event in "while not
\* self.stop_event.is_set() or not self.queue.empty()": into the body when
\* the event is clear, on to the second operand when it is set.
after_is_set(is_set) == IF ~is_set THEN "get" ELSE "empty"

\* Where _worker goes after it read queue.empty(): into the body when there
\* is a result, out of the loop otherwise.
after_empty(empty) == IF ~empty THEN "get" ELSE "close"

\* The dict pytest_runtest_makereport builds for the k-th call report.
ResultDict(k, outcome) == [test_name |-> k, outcome |-> outcome]

\* pytest_runtest_makereport for a call report: db_handler.add_result(...)
add_result(outcome) ==
    /\ main_thread = "running"
    /\ Len(enqueued) < MaxResults
    /\ queue' = Append(queue, ResultDict(Len(enqueued) + 1, outcome))
    /\ enqueued' = Append(enqueued, ResultDict(Len(enqueued) + 1, outcome))
    /\ UNCHANGED <<stop_event, worker_thread, in_hand, saved, rolled_back,
                   main_thread, plugin_vars>>

\* pytest_sessionfinish: db_handler.close() sets the event ...
close_set ==
    /\ main_thread = "running"
    /\ stop_event' = TRUE
    /\ main_thread' = "join"
    /\ UNCHANGED <<queue, worker_thread, in_hand, saved, rolled_back, enqueued,
                   plugin_vars>>

\* ... and joins the worker thread: it returns once _worker has returned.
close_join ==
    /\ main_thread = "join"
    /\ worker_thread = "returned"
    /\ main_thread' = "closed"
    /\ UNCHANGED <<queue, stop_event, worker_thread, in_hand, saved,
                   rolled_back, enqueued, plugin_vars>>

\* _worker reads stop_event for the loop condition.
worker_is_set ==
    /\ worker_thread = "while"
    /\ worker_thread' = after_is_set(stop_event)
    /\ UNCHANGED <<queue, stop_event, in_hand, saved, rolled_back,
                   main_thread, enqueued, plugin_vars>>

\* _worker reads queue.empty() for the loop condition.
worker_empty ==
    /\ worker_thread = "empty"
    /\ worker_thread' = after_empty(queue = <<>>)
    /\ UNCHANGED <<queue, stop_event, in_hand, saved, rolled_back,
                   main_thread, enqueued, plugin_vars>>

\* self.queue.get(timeout=1): the oldest result, or queue.Empty after a
\* second without one, which the loop passes over.
worker_get ==
    /\ worker_thread = "get"
    /\ IF queue # <<>>
       THEN /\ in_hand' = Head(queue)
            /\ queue' = Tail(queue)
            /\ worker_thread' = "commit"
       ELSE /\ worker_thread' = "while"
            /\ UNCHANGED <<queue, in_hand>>
    /\ UNCHANGED <<stop_event, saved, rolled_back, main_thread, enqueued, plugin_vars>>

\* session.add(TestResult(**test_result)); session.commit(): the result is
\* saved, or (raises) the except branch rolls back and logs; the loop goes on.
worker_commit(raises) ==
    /\ worker_thread = "commit"
    /\ IF raises
       THEN /\ rolled_back' = Append(rolled_back, in_hand)
            /\ errlog' = errlog \cup {"Error saving test result"}
            /\ UNCHANGED saved
       ELSE /\ saved' = Append(saved, in_hand)
            /\ UNCHANGED <<rolled_back, errlog>>
    /\ in_hand' = NoResult
    /\ worker_thread' = "while"
    /\ UNCHANGED <<queue, stop_event, main_thread, enqueued>>
    /\ UNCHANGED <<xdist, report, processed_tests, runs, hooked, finished,
                   workeroutput, down, last_node, final_report, finalized, raised,
                   inputs, longrepr_str, truncated, path_vars, last_report,
                   remote_url, io>>

\* session.close() after the loop; _worker returns.
worker_close ==
    /\ worker_thread = "close"
    /\ worker_thread' = "returned"
    /\ UNCHANGED <<queue, stop_event, in_hand, saved, rolled_back,
                   main_thread, enqueued, plugin_vars>>

\* A step of the worker thread.
_worker ==
    \/ worker_is_set
    \/ worker_empty
    \/ worker_get
    \/ \E raises \in BOOLEAN : worker_commit(raises)
    \/ worker_close

NextDBHandler ==
    \/ \E outcome \in {"passed", "failed"} : add_result(outcome)
    \/ close_set
    \/ close_join
    \/ _worker

\* pytest_sessionstart made the DBHandler of the only process.
InitSessionStart == Init /\ xdist = FALSE

SpecDBHandler ==
    /\ InitSessionStart
    /\ [][NextDBHandler]_vars
    /\ WF_vars(_worker)
    /\ WF_vars(close_join)

(***************************************************************************)
(* pytest_configure of a session started with --custom-report: the plugin *)
(* is constructed for a --custom-report-file of up to MaxPathLen           *)
(* characters, or for none, and registered.                                *)
(***************************************************************************)
PathChars == {Sep, Dot, "r", "j"}

UserFiles == UNION {[1..n -> PathChars] : n \in 0..MaxPathLen} \cup {NoText}

\* The path is not generated yet.
NoPath == <<>>

InitGenerate ==
    /\ InitPlugin /\ xdist = FALSE
    /\ longrepr_str = <<>> /\ truncated = NoText
    /\ report_format \in {Json, Yaml}
    /\ user_specified_file \in UserFiles
    /\ output_file = NoPath
    /\ registered = FALSE
    /\ remote_url = None

\* pytest_configure with --custom-report given: unless the instance is
\* registered already, CustomReporterPlugin(config) is constructed, which
\* generates output_file, and registered.  A ValueError of with_suffix leaves
\* the constructor; the hook catches it and logs, and no plugin is registered.
pytest_configure ==
    /\ IF ~registered
       THEN LET path == _generate_output_path([report_format |-> report_format],
                                              user_specified_file)
            IN  IF path = ValueError
                THEN /\ errlog' = errlog \cup {"Failed to initialize Custom Reporter plugin"}
                     /\ UNCHANGED <<output_file, registered>>
                ELSE /\ output_file' = path
                     /\ registered' = TRUE
                     /\ UNCHANGED errlog
       ELSE UNCHANGED <<output_file, registered, errlog>>
    /\ UNCHANGED <<xdist, report, processed_tests, runs, hooked, finished,
                   workeroutput, down, last_node, final_report, finalized, raised,
                   inputs, longrepr_str, truncated,
                   report_format, user_specified_file, last_report, remote_url, io,
                   db_vars>>

NextGenerate == pytest_configure

SpecGenerate == InitGenerate /\ [][NextGenerate]_vars

(***************************************************************************)
(* _truncate_traceback on its own: one call on a text of up to MaxLines    *)
(* lines, one of which may be empty.                                       *)
(***************************************************************************)
\* The text of n lines, line number i being the numeral of i, the line
\* number blank (if any) being empty.
Trace(n, blank) ==
    join([i \in 1..n |-> IF i = blank THEN <<>> ELSE <<ToString(i)>>])

Traces == {Trace(n, blank) : n \in 1..MaxLines, blank \in 0..MaxLines}

InitTruncate ==
    /\ InitPlugin /\ xdist = FALSE
    /\ longrepr_str \in Traces
    /\ truncated = NoText
    /\ InitPath
    /\ remote_url = None

\* self._truncate_traceback(longrepr_str)
truncate_call ==
    /\ truncated = NoText
    /\ truncated' = _truncate_traceback(longrepr_str)
    /\ UNCHANGED <<xdist, report, processed_tests, runs, hooked, finished,
                   workeroutput, down, last_node, final_report, finalized, raised,
                   errlog, inputs, longrepr_str, path_vars, last_report,
                   remote_url, io, db_vars>>

NextTruncate == truncate_call

SpecTruncate == InitTruncate /\ [][NextTruncate]_vars

(***************************************************************************)
(* The message of a record: one add_test call for a report whose longrepr  *)
(* is a text of up to MaxChars characters after its fixed part.            *)
(***************************************************************************)
\* n characters, each the last digit of its position.
Chars(n) == [i \in 1..n |-> ToString(i % 10)]

DefLine == <<"d", "e", "f", " ", "t", "(", ")", ":">>
EPrefix == <<"E", " ", " ", " ">>
SkipPrefix ==
    <<"(", "'", "t", "'", ",", " ", "3", ",", " ", "'">> \o Skipped \o <<" ">>
SkipSuffix == <<"'", ")">>

\* The texts: a traceback whose E line says Chars(n), a single line Chars(n),
\* a skip location whose reason is Chars(n).
LongTexts ==
    UNION {{DefLine \o <<NL>> \o EPrefix \o Chars(n),
            Chars(n),
            SkipPrefix \o Chars(n) \o SkipSuffix} : n \in 1..MaxChars}

\* The phase report that is mapped to result, with the text as its longrepr.
ReportFor(result, text) ==
    [when     |-> IF result = "FAILED" THEN "call" ELSE "setup",
     outcome  |-> IF result = "SKIPPED" THEN "skipped" ELSE "failed",
     duration |-> duration_of(IF result = "FAILED" THEN "call" ELSE "setup"),
     longrepr |-> text]

InitMessage ==
    /\ InitPlugin /\ xdist = FALSE
    /\ longrepr_str \in LongTexts
    /\ truncated = NoText
    /\ InitPath
    /\ remote_url = None

\* self.add_test(item, report, result) for a report with the text.
add_test_text(item, result) ==
    /\ report[Master].tests = <<>>
    /\ LET r == add_test(report[Master], item, ReportFor(result, longrepr_str), result)
       IN  /\ report' = [report EXCEPT ![Master] = r.self]
           /\ errlog' = errlog \cup r.logged
    /\ UNCHANGED <<xdist, processed_tests, runs, hooked, finished, workeroutput,
                   down, last_node, final_report, finalized, raised,
                   inputs, longrepr_str, truncated, path_vars, last_report,
                   remote_url, io, db_vars>>

NextMessage ==
    \E item \in {i \in Items : i.nodeid = "a"},
       result \in {"FAILED", "ERROR", "SKIPPED"} : add_test_text(item, result)

SpecMessage == InitMessage /\ [][NextMessage]_vars

(***************************************************************************)
(* The claims.                                                             *)
(***************************************************************************)
SumOfKinds(summary) ==
    summary["passed"] + summary["failed"] + summary["pending"]
    + summary["skipped"] + summary["error"] + summary["other"]

\* The records pytest_runtest_makereport added in p for nodeid n.
HookedFor(p, n) ==
    LET ForN(h) == h.test.nodeid = n IN SelectSeq(hooked[p], ForN)

\* C1: in every accumulator, whatever add_test calls and worker imports it
\* went through, summary["tests"] is the number of records in tests and the
\* six outcome counts add up to summary["tests"].
C1_CountsMatchRecords ==
    \A p \in Procs :
        /\ report[p].summary["tests"] = Len(report[p].tests)
        /\ SumOfKinds(report[p].summary) = report[p].summary["tests"]

\* An accumulator that holds records added by the hook and imported records.
C1_Witness ==
    /\ hooked[Master] # <<>>
    /\ Len(report[Master].tests) > Len(hooked[Master]) + 1

\* Run i of p is finished, is the only run of its test in p, and its item is
\* one the host can collect (its name is a str).
SingleLifecycle(p, i) ==
    /\ runs[p][i].done
    /\ IsStr(runs[p][i].item.name)
    /\ \A j \in DOMAIN runs[p] :
           j # i => runs[p][j].item.nodeid # runs[p][i].item.nodeid

\* C2: a test that went through the host lifecycle once in a process (setup;
\* call only if setup passed; teardown) has exactly one record added by
\* pytest_runtest_makereport: the one of the setup report when setup was
\* skipped or failed, the one of the call report otherwise.
C2_OneRecordPerLifecycle ==
    \A p \in Procs : \A i \in DOMAIN runs[p] :
        SingleLifecycle(p, i) =>
            LET added == HookedFor(p, runs[p][i].item.nodeid)
            IN  /\ Len(added) = 1
                /\ added[1].when =
                       IF runs[p][i].setup \in {"skipped", "failed"}
                       THEN "setup" ELSE "call"
                /\ added[1].test \in Range(report[p].tests)

\* One process ran a test whose setup failed and a test that was called.
C2_Witness ==
    \E i, j \in DOMAIN runs[Master] :
        /\ SingleLifecycle(Master, i) /\ runs[Master][i].setup = "failed"
        /\ SingleLifecycle(Master, j) /\ runs[Master][j].call = "failed"

\* C3: once pytest_runtest_makereport has added a record for a nodeid, no
\* later phase report for that nodeid adds another: the hook never adds two
\* records for one nodeid.
C3_LaterReportsIgnored ==
    \A p \in Procs : \A n \in NodeIds : Len(HookedFor(p, n)) <= 1

\* The node object of worker w as the coordinator sees it once w's session
\* has finished with the records w holds now.
NodeOf(w) ==
    [workerid |-> w,
     workeroutput |-> [workerid |-> w,
                       custom_reporter_results |-> worker_results_of(report[w])]]

NodeidsOf(tests) == {tests[i].nodeid : i \in DOMAIN tests}

\* C4: exporting any accumulator as a worker does in pytest_sessionfinish and
\* importing the payload with pytest_testnodedown into a fresh accumulator
\* gives the same outcome counts and total and the same set of nodeids.
C4_ExportImportRoundTrip ==
    \A p \in Procs :
        LET imported == testnodedown(CustomReport(clock(Master)), NodeOf(p))
        IN  /\ ~imported.raised
            /\ imported.self.summary = report[p].summary
            /\ NodeidsOf(imported.self.tests) = NodeidsOf(report[p].tests)

\* A fresh coordinator imported the payload of a worker that holds two
\* records of different outcomes.
C4_Witness ==
    \E w \in Workers :
        /\ finished[w] /\ down = {w}
        /\ last_node = NodeOf(w)
        /\ Len(report[w].tests) = 2
        /\ report[w].tests[1].result # report[w].tests[2].result
        /\ report[Master].summary = report[w].summary
        /\ NodeidsOf(report[Master].tests) = NodeidsOf(report[w].tests)

\* The nodes pytest_testnodedown can be called for in this state.
Importable ==
    IF finished[Master] THEN {}
    ELSE (IF xdist THEN {NodeOf(w) : w \in {v \in Workers : finished[v]} \ down} ELSE {})
         \cup (IF inputs < MaxInputs /\ ForeignNode \notin down THEN ForeignNodes ELSE {})

\* C5: from any coordinator state, importing node A and then node B gives the
\* same summary (every outcome count and the total) as importing B and then A.
C5_MergeCommutes ==
    \A A \in Importable : \A B \in Importable :
        A.workerid # B.workerid =>
            testnodedown(testnodedown(report[Master], A).self, B).self.summary
            = testnodedown(testnodedown(report[Master], B).self, A).self.summary

\* The coordinator imported gw1 and then gw0, both with records, of different
\* outcomes.
C5_Witness ==
    /\ down = Workers /\ finished["gw0"] /\ finished["gw1"]
    /\ last_node = NodeOf("gw0")
    /\ report["gw0"].tests # <<>> /\ report["gw1"].tests # <<>>
    /\ report["gw0"].tests[1].result # report["gw1"].tests[1].result
    /\ report[Master].tests = report["gw1"].tests \o report["gw0"].tests

\* The entries of the payload of a node (none when it published none).
EntriesOf(node) ==
    IF /\ "workeroutput" \in DOMAIN node
       /\ "custom_reporter_results" \in DOMAIN node.workeroutput
       /\ "tests" \in DOMAIN node.workeroutput.custom_reporter_results
    THEN node.workeroutput.custom_reporter_results.tests
    ELSE <<>>

\* An entry every field of which passes validation; one with no result key counts.
WellFormed(e) ==
    /\ "nodeid" \in DOMAIN e /\ "name" \in DOMAIN e
    /\ "result" \in DOMAIN e => e.result \in Kinds

HasResult(e) == "result" \in DOMAIN e

\* The step is a pytest_testnodedown call.
NodeDownStep == down' # down

\* C6: a payload entry that fails validation is the only one dropped: the
\* import adds one record for every entry that passes validation, also for
\* those placed after an invalid one.
C6_OnlyInvalidDropped ==
    [][NodeDownStep =>
          Len(report'[Master].tests) =
              Len(report[Master].tests)
              + Len(SelectSeq(EntriesOf(last_node'), WellFormed))]_vars

\* C7 as stated: an entry without the result key is not added, so a payload
\* of k entries with it and some without leaves k more records.
C7_NoOutcomeDropped ==
    [][(NodeDownStep /\ \A i \in DOMAIN EntriesOf(last_node') :
                            WellFormed(EntriesOf(last_node')[i])) =>
          report'[Master].summary["tests"] =
              report[Master].summary["tests"]
              + Len(SelectSeq(EntriesOf(last_node'), HasResult))]_vars

\* C7 as amended: an entry without the result key is valid: it is added with
\* outcome OTHER and counted, so a payload of well-formed entries, with or
\* without the key, adds one record per entry.
C7_NoOutcomeIsOther ==
    [][(NodeDownStep /\ \A i \in DOMAIN EntriesOf(last_node') :
                            WellFormed(EntriesOf(last_node')[i])) =>
          LET entries == EntriesOf(last_node')
              before  == Len(report[Master].tests)
          IN  /\ Len(report'[Master].tests) = before + Len(entries)
              /\ report'[Master].summary["tests"] =
                     report[Master].summary["tests"] + Len(entries)
              /\ report'[Master].summary["other"] >=
                     report[Master].summary["other"]
                     + Len(entries) - Len(SelectSeq(entries, HasResult))
              /\ \A i \in DOMAIN entries :
                     /\ report'[Master].tests[before + i].nodeid = entries[i].nodeid
                     /\ ~HasResult(entries[i]) =>
                            report'[Master].tests[before + i].result = "OTHER"]_vars

\* The coordinator imported a payload that holds an entry with a result and,
\* after it, one without.
C7_Witness ==
    /\ Len(EntriesOf(last_node)) = 2
    /\ HasResult(EntriesOf(last_node)[1]) /\ WellFormed(EntriesOf(last_node)[1])
    /\ ~HasResult(EntriesOf(last_node)[2]) /\ WellFormed(EntriesOf(last_node)[2])
    /\ Len(report[Master].tests) >= 2
    /\ report[Master].tests[Len(report[Master].tests)].result = "OTHER"

\* C8: a step that adds one record of some outcome kind raises that kind's
\* count by one and the total by one and leaves the other kinds' counts alone.
C8_OwnCountRaised ==
    [][\A p \in Procs :
          Len(report'[p].tests) = Len(report[p].tests) + 1 =>
              LET kind == value(report'[p].tests[Len(report'[p].tests)].result)
              IN  /\ report'[p].summary["tests"] = report[p].summary["tests"] + 1
                  /\ report'[p].summary[kind] = report[p].summary[kind] + 1
                  /\ \A k \in Kinds \ {kind} :
                         report'[p].summary[k] = report[p].summary[k]]_vars

\* How many tests of the returned report have status k.
StatusCount(k) ==
    Cardinality({i \in DOMAIN final_report.tests : final_report.tests[i].status = k})

\* C9: the summary of the report finalize returned has, for every outcome
\* kind, the number of records of that kind, and tests is the number of records.
C9_FinalSummaryCounts ==
    final_report.returned =>
        /\ final_report.summary["tests"] = Len(final_report.tests)
        /\ \A k \in Kinds : final_report.summary[k] = StatusCount(k)

\* C10: no hook of the plugin lets an exception escape to the host.
C10_NothingPropagates == ~raised

\* The extraction of the marks or of the allure id of item raises.
ExtractionFails(item) ==
    \/ item.iter_markers_raises
    \/ \E i \in DOMAIN item.markers : item.markers[i].label_type = NoKwargs

\* C11: an add_test call in which the extraction of a diagnostic field
\* (message, trace, marks, allure id) fails still appends the record, with
\* what could be extracted, and counts it in the summary.
C11_ExtractionFailureKeepsRecord ==
    [][\A item \in DirectItems : \A call \in DirectCalls :
          (add_test_call(item, call) /\ ExtractionFails(item)) =>
              /\ Len(report'[Master].tests) = Len(report[Master].tests) + 1
              /\ report'[Master].tests[Len(report'[Master].tests)].nodeid = item.nodeid
              /\ report'[Master].summary["tests"] =
                     report[Master].summary["tests"] + 1]_vars

\* C12: when a step of finalize raises (here the conversion of a duration),
\* finalize raises nothing and hands back a report with the error key whose
\* summary holds the counts accumulated so far.
C12_FinalizeFailureKeepsCounts ==
    [][(/\ ~final_report.returned /\ final_report'.returned
        /\ \E i \in DOMAIN report[Master].tests :
               report[Master].tests[i].duration = inf) =>
          /\ final_report'.error
          /\ final_report'.summary = report[Master].summary
          /\ final_report'.summary["tests"] = Len(report[Master].tests)
          /\ raised' = raised]_vars

\* finalize failed on an accumulator that holds two records.
C12_Witness ==
    /\ final_report.returned /\ final_report.error
    /\ final_report.summary["tests"] = 2
    /\ final_report.summary["failed"] >= 1
    /\ Len(report[Master].tests) = 2

\* C13: once finalize has returned, an add_test call or an import changes
\* neither the records nor the counts of the accumulator.
C13_FinalizedIsFrozen ==
    [][final_report.returned =>
          /\ report'[Master].tests = report[Master].tests
          /\ report'[Master].summary = report[Master].summary]_vars

\* C14: the report finalize returned is a snapshot: whatever is done to the
\* accumulator later, its summary and its tests stay as returned, and its
\* summary["tests"] stays the length of its tests.
C14_ReturnedReportIsSnapshot ==
    [][final_report.returned =>
          /\ final_report'.summary = final_report.summary
          /\ final_report'.tests = final_report.tests
          /\ final_report'.summary["tests"] = Len(final_report'.tests)]_vars

\* Worker w stored a payload for the coordinator.
Published(w) == "custom_reporter_results" \in DOMAIN workeroutput[w]

\* C15: pytest_sessionfinish calls finalize exactly once in the coordinator
\* (or the only process) and never in a worker: a worker whose session has
\* finished has stored its payload, or logged that it could not, and no
\* report was returned for it.
C15_FinalizeOnceInCoordinator ==
    /\ \A p \in Procs :
           finalized[p] = IF p = Master /\ finished[p] THEN 1 ELSE 0
    /\ final_report.returned <=> finished[Master]
    /\ \A w \in Workers :
           finished[w] =>
               \/ Published(w)
               \/ "Failed to send worker results to master" \in errlog

\* A distributed session ended: both workers published records and the
\* coordinator finalized.
C15_Witness ==
    /\ xdist /\ \A p \in Procs : finished[p]
    /\ \A w \in Workers : Published(w) /\ report[w].tests # <<>> /\ finalized[w] = 0
    /\ finalized[Master] = 1 /\ Len(final_report.tests) = 2

\* C16: an import appends: after the payload of a worker was imported, the
\* coordinator's records are the ones it had followed by that worker's
\* records in the order the worker added them; and so for any payload of
\* valid entries, in the order of the entries.
C16_ImportKeepsOrder ==
    [][/\ \A w \in Workers :
             (w \notin down /\ w \in down' /\ finished[w] /\ Published(w)) =>
                 report'[Master].tests = report[Master].tests \o report[w].tests
       /\ (NodeDownStep /\ \A i \in DOMAIN EntriesOf(last_node') :
                               ValidationOk(EntriesOf(last_node')[i])) =>
             report'[Master].tests =
                 report[Master].tests
                 \o [i \in DOMAIN EntriesOf(last_node') |->
                        TestResultModel(EntriesOf(last_node')[i])]]_vars

\* The coordinator imported the payload of gw1 after that of gw0, which held
\* two different records.
C16_Witness ==
    /\ down = Workers /\ last_node = NodeOf("gw1")
    /\ Len(report["gw0"].tests) = 2
    /\ report["gw0"].tests[1] # report["gw0"].tests[2]
    /\ report[Master].tests = report["gw0"].tests \o report["gw1"].tests

\* C17: pytest_testnodedown for a worker that went down before it published
\* a payload changes neither the records nor the counts of the coordinator
\* and raises nothing, and the report the coordinator finalizes holds the
\* records of every worker that did publish.
C17_CrashedWorkerIgnored ==
    /\ [][\A w \in Workers :
              (w \notin down /\ w \in down' /\ ~finished[w]) =>
                  /\ report'[Master] = report[Master]
                  /\ raised' = raised]_vars
    /\ [](final_report.returned =>
              \A w \in Workers : (finished[w] /\ Published(w)) =>
                  \A i \in DOMAIN report[w].tests :
                      \E j \in DOMAIN final_report.tests :
                          /\ final_report.tests[j].name = report[w].tests[i].nodeid
                          /\ final_report.tests[j].status =
                                 value(report[w].tests[i].result))

\* gw0 went down in the middle of a test, gw1 published a record, and the
\* coordinator finalized a report with that record.
C17_Witness ==
    /\ "gw0" \in down /\ ~finished["gw0"] /\ runs["gw0"] # <<>>
    /\ finished["gw1"] /\ Len(report["gw1"].tests) = 1
    /\ final_report.returned /\ ~raised
    /\ Len(final_report.tests) = 1 /\ final_report.tests[1].name = "b"

\* C18: the export of a worker is all or nothing: a payload that is stored
\* holds every record of the worker; when the dump of a record raises,
\* nothing is stored, the failure is logged and not raised, and the import
\* for that worker leaves the coordinator as it was.
C18_ExportAllOrNothing ==
    /\ [](\A w \in Workers :
              (finished[w] /\ Published(w)) =>
                  workeroutput[w].custom_reporter_results.tests =
                      [i \in 1..Len(report[w].tests) |-> model_dump(report[w].tests[i])])
    /\ [][\A w \in Workers :
              (~finished[w] /\ finished'[w]) =>
                  /\ raised' = raised
                  /\ \/ Published(w)'
                     \/ "Failed to send worker results to master" \in errlog']_vars
    /\ [][\A w \in Workers :
              (w \notin down /\ w \in down' /\ finished[w] /\ ~Published(w)) =>
                  /\ report'[Master] = report[Master]
                  /\ raised' = raised]_vars

\* A worker with two records failed to export them and went down; the
\* coordinator holds no record.
C18_Witness ==
    \E w \in Workers :
        /\ finished[w] /\ ~Published(w) /\ w \in down
        /\ Len(report[w].tests) = 2
        /\ "Failed to send worker results to master" \in errlog
        /\ report[Master].tests = <<>> /\ ~raised

\* C19: a record exported by model_dump(mode='json') and rebuilt by
\* TestResultModel(**dict) equals the original in every field, and so the
\* records a fresh coordinator imports from a process's payload are that
\* process's records.
C19_RecordRoundTrip ==
    \A p \in Procs :
        /\ \A i \in DOMAIN report[p].tests :
               /\ ValidationOk(model_dump(report[p].tests[i]))
               /\ TestResultModel(model_dump(report[p].tests[i])) = report[p].tests[i]
        /\ testnodedown(CustomReport(clock(Master)), NodeOf(p)).self.tests
               = report[p].tests

\* The coordinator imported from gw0 a failed record that has a message, a
\* trace, marks, an allure id and a start time.
C19_Witness ==
    /\ "gw0" \in down /\ finished["gw0"] /\ Published("gw0")
    /\ Len(report["gw0"].tests) = 1
    /\ report[Master].tests = report["gw0"].tests
    /\ report[Master].tests[1].result = "FAILED"
    /\ report[Master].tests[1].message = <<"b", "o", "o", "m">>
    /\ report[Master].tests[1].stack_trace # NoText
    /\ report[Master].tests[1].marks = <<"slow", "allure_label">>
    /\ report[Master].tests[1].allure_id = "101"
    /\ report[Master].tests[1].start_time = [datetime |-> clock("gw0")]

\* C20: _truncate_traceback returns a text of at most 20 lines unchanged and
\* cuts a longer one to 21 lines: its first 10 lines, the line "..." and its
\* last 10 lines.
C20_TruncateTraceback ==
    truncated # NoText =>
        LET lines == split(longrepr_str)
            out   == split(truncated)
            n     == Len(lines)
        IN  IF n <= 20 THEN truncated = longrepr_str
            ELSE /\ Len(out) = 21
                 /\ \A i \in 1..10 : out[i] = lines[i]
                 /\ out[11] = <<"...">>
                 /\ \A i \in 1..10 : out[11 + i] = lines[n - 10 + i]

\* A text of 25 lines, the third of them empty, was cut to 21 lines.
C20_Witness ==
    /\ longrepr_str = Trace(25, 3)
    /\ truncated # NoText /\ truncated # longrepr_str
    /\ Len(split(truncated)) = 21

\* The message before it is cut, for the texts of LongTexts: what the E line
\* says, else the only line.
RawErrorMessage(text) ==
    IF Len(text) > Len(DefLine) /\ SubSeq(text, 1, Len(DefLine)) = DefLine
    THEN SubSeq(text, Len(DefLine) + 1 + Len(EPrefix) + 1, Len(text))
    ELSE text

\* C21: the message of a failed or error record has at most 500 characters:
\* it is the raw message when that has at most 500 characters and its first
\* 500 characters otherwise; the message of a skipped record has at most 200
\* characters.
C21_MessagesAreCut ==
    \A i \in DOMAIN report[Master].tests :
        LET test == report[Master].tests[i]
            raw  == RawErrorMessage(longrepr_str)
        IN  IF test.result \in {"FAILED", "ERROR"}
            THEN /\ Len(test.message) <= 500
                 /\ test.message = IF Len(raw) > 500 THEN SubSeq(raw, 1, 500) ELSE raw
            ELSE /\ test.result = "SKIPPED"
                 /\ test.message # NoText
                 /\ Len(test.message) <= 200

\* A failed record whose E line said 502 characters has the first 500.
C21_Witness ==
    /\ longrepr_str = DefLine \o <<NL>> \o EPrefix \o Chars(502)
    /\ Len(report[Master].tests) = 1
    /\ report[Master].tests[1].result = "FAILED"
    /\ report[Master].tests[1].message = Chars(500)

\* C22: in every accumulator, of the coordinator or of a worker, a record
\* has a message only if its outcome is FAILED, ERROR or SKIPPED and a trace
\* only if its outcome is FAILED or ERROR, whether the hook added it or an
\* import did; and so for the entries of the report finalize returned.
C22_DetailsOnlyForOutcomes ==
    /\ \A p \in Procs : \A i \in DOMAIN report[p].tests :
           LET test == report[p].tests[i]
           IN  /\ test.message # NoText =>
                      test.result \in {"FAILED", "ERROR", "SKIPPED"}
               /\ test.stack_trace # NoText => test.result \in {"FAILED", "ERROR"}
    /\ \A i \in DOMAIN final_report.tests :
           LET entry == final_report.tests[i]
           IN  /\ "message" \in DOMAIN entry =>
                      entry.status \in {"failed", "error", "skipped"}
               /\ "trace" \in DOMAIN entry => entry.status \in {"failed", "error"}

\* The coordinator merged a failed record with message and trace from gw0
\* and a passed record with neither from gw1.
C22_Witness ==
    /\ down = Workers
    /\ Len(report[Master].tests) = 2
    /\ report[Master].tests[1].result = "FAILED"
    /\ report[Master].tests[1].message # NoText
    /\ report[Master].tests[1].stack_trace = Traceback
    /\ report[Master].tests[2].result = "PASSED"
    /\ report[Master].tests[2].message = NoText
    /\ report[Master].tests[2].stack_trace = NoText

\* The id the allure.id decorator of the test with nodeid was given, None
\* for a test without the decorator.
IdAnnotation(nodeid) ==
    CASE nodeid \in {"p[0]", "p[1]"} -> "105"
      [] nodeid = "t" -> "103"
      [] OTHER -> None

\* C23: the allure_id of a record is the id of the test's allure.id
\* decorator, also for a test skipped at setup and for each instance of a
\* parametrized test, and None for a test without one; the entry finalize
\* emits has the field with that id, and no such field for a test without.
C23_RecordCarriesAllureId ==
    /\ \A i \in DOMAIN report[Master].tests :
           report[Master].tests[i].allure_id = IdAnnotation(report[Master].tests[i].nodeid)
    /\ \A i \in DOMAIN final_report.tests :
           LET entry == final_report.tests[i]
           IN  IF IdAnnotation(entry.name) = None
               THEN "allure_id" \notin DOMAIN entry
               ELSE "allure_id" \in DOMAIN entry
                    /\ entry.allure_id = IdAnnotation(entry.name)

\* An instance of the parametrized test was skipped at setup, the test
\* without an id passed, and the report was emitted.
C23_Witness ==
    /\ final_report.returned
    /\ Len(final_report.tests) = 2
    /\ hooked[Master][1].when = "setup"
    /\ report[Master].tests[1].nodeid = "p[1]"
    /\ report[Master].tests[1].result = "SKIPPED"
    /\ report[Master].tests[1].allure_id = "105"
    /\ final_report.tests[1].allure_id = "105"
    /\ report[Master].tests[2].nodeid = "n"
    /\ report[Master].tests[2].allure_id = None
    /\ "allure_id" \notin DOMAIN final_report.tests[2]

\* The plugin was constructed: its path was generated for the option the
\* user gave.
Generated == registered /\ output_file # NoPath

\* The option names a directory: it starts with or contains a separator.
HasDirectory(file) == \E i \in DOMAIN file : file[i] = Sep

\* text starts with pre and ends with post, and has the timestamp in between
\* after some name and a dash.
InReportsDirWithTimestamp(text, post) ==
    LET pre == ReportsDir \o <<Sep>>
    IN  /\ startswith(text, pre)
        /\ Len(text) >= Len(pre) + 1 + Len(timestamp) + Len(post)
        /\ SubSeq(text, Len(text) - Len(post) + 1, Len(text)) = post
        /\ SubSeq(text, Len(text) - Len(post) - Len(timestamp), Len(text) - Len(post))
               = <<"-">> \o timestamp
        /\ \A i \in (Len(pre) + 1)..Len(text) : text[i] # Sep

\* C24: the generated path is the user's file unchanged when that is
\* absolute or has a directory component; it lies in custom_reports/ with
\* the timestamp in its name when the user's file is a bare filename; it is
\* custom_reports/report-<timestamp>.<format> when no file was given.
C24_OutputPathSelection ==
    Generated =>
        IF user_specified_file \in {NoText, <<>>}
        THEN output_file = ReportsDir \o <<Sep>> \o ReportStem \o <<"-">> \o timestamp
                               \o <<Dot>> \o report_format
        ELSE IF HasDirectory(user_specified_file)
        THEN output_file = user_specified_file
        ELSE \E k \in 0..Len(user_specified_file) :
                 InReportsDirWithTimestamp(
                     output_file,
                     SubSeq(user_specified_file, k + 1, Len(user_specified_file)))
             \/ InReportsDirWithTimestamp(output_file, <<Dot>> \o report_format)

\* The run the hook of the coordinator handled last, and its test.
LastRun == runs[Master][Len(runs[Master])]

\* The records the coordinator holds for the test of its last run.
RecordsOfLastRun ==
    SelectSeq(report[Master].tests, LAMBDA t : t.nodeid = LastRun.item.nodeid)

\* The last run is the only run of its test.
LastRunIsOnly ==
    \A j \in 1..(Len(runs[Master]) - 1) :
        runs[Master][j].item.nodeid # LastRun.item.nodeid

\* C25: a teardown report adds no record and changes no count; when the
\* teardown of a test failed after its call had passed, the test (run once)
\* has exactly one record, and that is PASSED.
C25_TeardownAddsNoRecord ==
    /\ [][\A item \in PlainItems : \A rep \in Reports :
             (pytest_runtest_makereport_plain(item, rep) /\ rep.when = "teardown") =>
                 report'[Master] = report[Master]]_vars
    /\ [](last_report.when = "teardown" /\ last_report.outcome = "failed"
            /\ LastRun.call = "passed" /\ LastRunIsOnly =>
               /\ Len(RecordsOfLastRun) = 1
               /\ RecordsOfLastRun[1].result = "PASSED")

\* The call of a test passed and its teardown failed, after another test
\* had passed altogether.
C25_Witness ==
    /\ last_report.when = "teardown" /\ last_report.outcome = "failed"
    /\ Len(runs[Master]) = 2
    /\ LastRun.call = "passed" /\ LastRun.done /\ LastRunIsOnly
    /\ Len(report[Master].tests) = 2
    /\ report[Master].summary["passed"] = 2
    /\ report[Master].summary["error"] = 0 /\ report[Master].summary["failed"] = 0

\* The outcome a report is to be recorded with.
RecordedAs(rep) ==
    CASE rep.outcome = "failed" /\ rep.when = "setup" -> "ERROR"
      [] rep.outcome = "failed" /\ rep.when = "call"  -> "FAILED"
      [] rep.outcome = "passed"  -> "PASSED"
      [] rep.outcome = "skipped" -> "SKIPPED"
      [] OTHER -> "OTHER"

\* C26: the record the hook adds for a report has the outcome ERROR for a
\* failed setup report (and raises the error count), FAILED for a failed call
\* report, PASSED for a passed, SKIPPED for a skipped one and OTHER for any
\* other host outcome; no record the hook added is PENDING.
C26_OutcomeMapping ==
    /\ [][\A item \in PlainItems : \A rep \in Reports :
             (/\ pytest_runtest_makereport_plain(item, rep)
              /\ Len(report'[Master].tests) = Len(report[Master].tests) + 1) =>
                 /\ report'[Master].tests[Len(report'[Master].tests)].result
                        = RecordedAs(rep)
                 /\ RecordedAs(rep) = "ERROR" =>
                        report'[Master].summary["error"]
                            = report[Master].summary["error"] + 1
                 /\ RecordedAs(rep) = "FAILED" =>
                        report'[Master].summary["failed"]
                            = report[Master].summary["failed"] + 1]_vars
    /\ [](\A i \in DOMAIN hooked[Master] : hooked[Master][i].test.result # "PENDING")

\* The setup of one test failed and the call of the next was given the
\* outcome "rerun": an ERROR record, counted as error, and an OTHER record.
C26_Witness ==
    /\ Len(runs[Master]) = 2 /\ Len(hooked[Master]) = 2
    /\ runs[Master][1].setup = "failed"
    /\ hooked[Master][1].when = "setup" /\ hooked[Master][1].test.result = "ERROR"
    /\ runs[Master][2].call = "rerun"
    /\ hooked[Master][2].when = "call" /\ hooked[Master][2].test.result = "OTHER"
    /\ report[Master].summary["error"] = 1 /\ report[Master].summary["other"] = 1
    /\ report[Master].summary["failed"] = 0

\* The positions in io of the operations op.
At(op) == {i \in DOMAIN io : io[i].op = op}

\* C27: the session touches the file system and the network only in the
\* coordinator's pytest_sessionfinish, and in this order: finalize, then at
\* most one file write, then at most one POST; the POST is made only when a
\* URL is configured and the file was written, so not after a failed mkdir
\* or a failed write.
C27_ReportIOAtSessionEnd ==
    /\ [][io' # io => ~finished[Master] /\ finished'[Master]]_vars
    /\ [](/\ \A i \in DOMAIN io : io[i].proc = Master
          /\ io # <<>> => finished[Master] /\ io[1].op = "finalize"
          /\ Cardinality(At("finalize")) <= 1
          /\ Cardinality(At("write")) <= 1
          /\ Cardinality(At("post")) <= 1
          /\ \A i \in At("write") : \E j \in At("mkdir") : j < i /\ io[j].ok
          /\ \A i \in At("post") :
                /\ remote_url = Url
                /\ \E j \in At("write") : j < i /\ io[j].ok
          /\ (\E j \in At("mkdir") \cup At("write") : ~io[j].ok) => At("post") = {})

\* The coordinator of a distributed session with a URL finalized, wrote the
\* file and sent the report, in this order.
C27_Witness ==
    /\ xdist /\ remote_url = Url
    /\ report[Master].tests # <<>>
    /\ io = <<Event(Master, "finalize", TRUE), Event(Master, "mkdir", TRUE),
              Event(Master, "write", TRUE), Event(Master, "post", TRUE)>>

\* The results _worker took from the queue and dealt with.
Taken == Range(saved) \cup Range(rolled_back)

\* C28: when close() has returned, the queue is empty and every result that
\* add_result was given before has been taken from it by _worker, and saved
\* or rolled back, each once; a result whose saving raised does not keep
\* _worker from the later ones; and a close() that was called returns.
C28_CloseDrainsQueue ==
    /\ [](main_thread = "closed" =>
             /\ queue = <<>> /\ in_hand = NoResult
             /\ worker_thread = "returned"
             /\ Range(enqueued) = Taken
             /\ Len(saved) + Len(rolled_back) = Len(enqueued))
    /\ [](\A i \in DOMAIN queue : queue[i] \in Range(enqueued) \ Taken)
    /\ (main_thread = "join" ~> main_thread = "closed")

\* close() returned after three results, the second of which could not be
\* saved while the first and the third were.
C28_Witness ==
    /\ main_thread = "closed"
    /\ Len(enqueued) = 3
    /\ Len(saved) = 2 /\ saved[1] = enqueued[1] /\ saved[2] = enqueued[3]
    /\ rolled_back = <<enqueued[2]>>

====
